---- MODULE Spec2Model ----
(***************************************************************************)
(* A model of mnr.ModelNumberRegex: the rule-based rewriter (transform)    *)
(* that turns a manufacturer's pseudo-regex into a sequence of             *)
(* PatternChunk(pattern, size), and the reverse matcher (is_match).        *)
(*                                                                         *)
(* A Python str is a sequence of one-character strings.  The backslash is  *)
(* the one-character string "\\".                                          *)
(***************************************************************************)
EXTENDS Integers, Sequences, FiniteSets, TLC

VARIABLES
    model_number,   \* self._model_number: the raw notation, <<>> while None
    rem_str,        \* self._rem_str: the cursor of transform
    chunks,         \* self._chunks: sequence of [pattern, size]
    pattern,        \* self.pattern, Unset until transform assigns it
    break_count,    \* transform's local break_count
    pc,             \* "idle", "loop", "returned", "raised", "invalid"
    scans,          \* iterations of transform's while loop in the current call
    fails,          \* consecutive iterations in which no rule applied
    match           \* the last is_match call: argument, result and exit branch

vars == <<model_number, rem_str, chunks, pattern, break_count, pc, scans,
          fails, match>>

----------------------------------------------------------------------------
(* Bounds of the model *)

MaxTokens == 3
MaxCandLen == 3
MaxOpts == 3

(* Program constants *)

\* `if break_count > 2`
BreakLimit == 2
\* \w{1,3} of _pattern1 and _pattern3
MaxOptLen == 3
\* \w{1,2} of _pattern1_sub1
MaxSubLen == 2
\* \d{2,3} of _pattern0
MinDigits == 2
MaxDigits == 3
\* the sizes _rule5 and _rule6 return
NoSize == -1

----------------------------------------------------------------------------
(* Characters *)

Letters == {"A", "w"}
Digits == {"1", "2", "5"}
WordChars == Letters \cup Digits

IsWord(c) == c \in WordChars
IsDigit(c) == c \in Digits

Min(a, b) == IF a < b THEN a ELSE b
Max(a, b) == IF a > b THEN a ELSE b

(* Python slicing on a str, with 0-based clamped bounds *)
Slice(s, b, e) == SubSeq(s, Min(b, Len(s)) + 1, Min(e, Len(s)))
Take(s, n) == Slice(s, 0, n)
Drop(s, n) == Slice(s, n, Len(s))

\* s[:-n]: n = 0 gives s[:0], the empty string
DropLast(s, n) == IF n = 0 THEN <<>> ELSE Take(s, Max(Len(s) - n, 0))

IsPrefix(p, s) == Len(p) <= Len(s) /\ Take(s, Len(p)) = p

RECURSIVE IndexOf(_, _, _)
\* the least index >= i of character c in s, 0 when there is none
IndexOf(s, c, i) ==
    IF i > Len(s) THEN 0
    ELSE IF s[i] = c THEN i
    ELSE IndexOf(s, c, i + 1)

RECURSIVE Split(_, _)
\* str.split(sep) for a one-character separator
Split(s, sep) ==
    LET k == IndexOf(s, sep, 1) IN
    IF k = 0 THEN <<s>>
    ELSE <<SubSeq(s, 1, k - 1)>> \o Split(SubSeq(s, k + 1, Len(s)), sep)

RECURSIVE Join(_, _)
\* sep.join(parts)
Join(parts, sep) ==
    IF parts = <<>> THEN <<>>
    ELSE IF Len(parts) = 1 THEN parts[1]
    ELSE parts[1] \o sep \o Join(Tail(parts), sep)

RECURSIVE Concat(_)
\* ''.join(parts)
Concat(parts) ==
    IF parts = <<>> THEN <<>> ELSE Head(parts) \o Concat(Tail(parts))

\* str.replace(old, new) for a one-character old
Replace(s, old, new) == Join(Split(s, old), new)

RECURSIVE RunLen(_, _, _)
\* the length of the longest run of characters of set cs starting at index i
RunLen(s, cs, i) ==
    IF i > Len(s) \/ s[i] \notin cs THEN 0 ELSE 1 + RunLen(s, cs, i + 1)

RECURSIVE MinLen(_)
\* min([len(x) for x in options])
MinLen(options) ==
    IF Len(options) = 1 THEN Len(options[1])
    ELSE Min(Len(options[1]), MinLen(Tail(options)))

RECURSIVE MapDropLast(_, _)
\* [opt[:-n] for opt in options]
MapDropLast(options, n) ==
    IF options = <<>> THEN <<>>
    ELSE <<DropLast(Head(options), n)>> \o MapDropLast(Tail(options), n)

InSeq(x, s) == \E i \in 1..Len(s) : s[i] = x

----------------------------------------------------------------------------
(* PatternChunk and the result of a rule *)

PatternChunk(p, n) == [pattern |-> p, size |-> n]

None == [ok |-> FALSE, chunk |-> PatternChunk(<<>>, 0), rem |-> <<>>]
Some(c, r) == [ok |-> TRUE, chunk |-> c, rem |-> r]

Unset == <<"unset">>

NoCall == [called |-> FALSE, mn |-> <<>>, result |-> FALSE, branch |-> "none",
           chunk |-> 0, rem |-> <<>>]

----------------------------------------------------------------------------
(* Preprocessing *)

\* whether _pattern0, \d{2,3}/\d{2,3}, matches at index i; the length it matches
P0LenAt(s, i) ==
    LET d1 == Min(RunLen(s, Digits, i), MaxDigits)
        sl == i + d1
        d2 == Min(RunLen(s, Digits, sl + 1), MaxDigits)
    IN  IF d1 >= MinDigits /\ sl <= Len(s) /\ s[sl] = "/" /\ d2 >= MinDigits
        THEN d1 + 1 + d2
        ELSE 0

RECURSIVE P0Search(_, _)
\* _pattern0.search: the leftmost index at which it matches, 0 when none
P0Search(s, i) ==
    IF i > Len(s) THEN 0
    ELSE IF P0LenAt(s, i) > 0 THEN i
    ELSE P0Search(s, i + 1)

_rule0(s) ==
    LET i == P0Search(s, 1) IN
    IF i = 0 THEN s
    ELSE LET n == P0LenAt(s, i)
             group == SubSeq(s, i, i + n - 1)
             left == SubSeq(s, 1, i - 1)
             right == SubSeq(s, i + n, Len(s))
         IN  left \o <<"(">> \o Replace(group, "/", <<",">>) \o <<")">> \o right

\* lines 133-157: split off the options, run rule 0, swap slashes for commas
Preprocess(raw) == Replace(_rule0(Split(raw, "+")[1]), "/", <<",">>)

----------------------------------------------------------------------------
(* The six rules: each maps the cursor to None or to a chunk and the new cursor *)

RECURSIVE P1Len(_, _)
\* the length _pattern1, ^(?:\w{1,3},)+, matches after i characters of it
P1Len(s, i) ==
    LET r == RunLen(s, WordChars, i + 1) IN
    IF r >= 1 /\ r <= MaxOptLen /\ i + r + 1 <= Len(s) /\ s[i + r + 1] = ","
    THEN P1Len(s, i + r + 1)
    ELSE i

\* _pattern1_sub1, ^\w{1,2},\w{1,2}$
P1Sub1(s) ==
    LET r == RunLen(s, WordChars, 1)
        t == RunLen(s, WordChars, r + 2)
    IN  /\ r >= 1 /\ r <= MaxSubLen
        /\ r + 1 <= Len(s) /\ s[r + 1] = ","
        /\ t >= 1 /\ t <= MaxSubLen
        /\ r + 1 + t = Len(s)

_rule1(s) ==
    LET n == P1Len(s, 0) IN
    IF n = 0 THEN None
    ELSE LET options == Split(SubSeq(s, 1, n), ",")
             begin == n
             end == begin + Len(options[1])
             last == IF P1Sub1(s) THEN Drop(s, begin) ELSE Slice(s, begin, end)
             rest == IF P1Sub1(s) THEN <<>> ELSE Drop(s, end)
             opts == [options EXCEPT ![Len(options)] = last]
         IN  Some(PatternChunk(<<"(">> \o Join(opts, <<"|">>) \o <<")">>,
                               MinLen(opts)),
                  rest)

\* _rule2 without `self._rem_str = self._rem_str[size:]`
rule2_untrimmed(s) ==
    LET n == RunLen(s, WordChars, 1) IN
    IF n = 0 THEN None
    ELSE Some(PatternChunk(Take(s, n), n), s)

_rule2(s) ==
    LET n == RunLen(s, WordChars, 1) IN
    IF n = 0 THEN None
    ELSE Some(PatternChunk(Take(s, n), n), Drop(s, n))

RECURSIVE P3Body(_, _)
\* after i characters: the index of the ")" closing (?:\w{1,3},?)+, 0 when none
P3Body(s, i) ==
    LET r == RunLen(s, WordChars, i + 1)
        j == i + r + 1
    IN  IF r = 0 \/ j > Len(s) THEN 0
        ELSE IF s[j] = ")" THEN j
        ELSE IF s[j] # "," THEN 0
        ELSE IF j + 1 <= Len(s) /\ s[j + 1] = ")" THEN j + 1
        ELSE P3Body(s, j)

\* the length _pattern3, ^\((?:\w{1,3},?)+\), matches
P3Len(s) == IF s # <<>> /\ s[1] = "(" THEN P3Body(s, 1) ELSE 0

_rule3(s) ==
    LET n == P3Len(s) IN
    IF n = 0 THEN None
    ELSE LET p == Take(s, n)
             size == Len(Split(p, ",")[1]) - 1
         IN  Some(PatternChunk(Replace(p, ",", <<"|">>), size), Drop(s, n))

RECURSIVE Repeat(_, _)
Repeat(piece, n) == IF n = 0 THEN <<>> ELSE piece \o Repeat(piece, n - 1)

_rule4(s) ==
    LET n == RunLen(s, {"*"}, 1) IN
    IF n = 0 THEN None
    ELSE IF s = <<"*">>
         THEN Some(PatternChunk(<<"\\", "w", "+">>, n), <<>>)
         ELSE Some(PatternChunk(Repeat(<<"\\", "w">>, n), n), Drop(s, n))

_rule5(s) ==
    LET n == RunLen(s, {"-"}, 1) IN
    IF n = 0 THEN None
    ELSE Some(PatternChunk(Repeat(<<"-", "?">>, n), NoSize), Drop(s, n))

WildGroup == <<"(", "\\", "w", "{", "1", ",", "5", "}", ")">>

_rule6(s) ==
    IF Take(s, 3) = <<"(", "*", ")">>
    THEN Some(PatternChunk(WildGroup, NoSize), Drop(s, 3))
    ELSE None

\* `for rule in rules`: the result of the first rule that applies
rules(s) ==
    IF _rule1(s).ok THEN _rule1(s)
    ELSE IF _rule2(s).ok THEN _rule2(s)
    ELSE IF _rule3(s).ok THEN _rule3(s)
    ELSE IF _rule4(s).ok THEN _rule4(s)
    ELSE IF _rule5(s).ok THEN _rule5(s)
    ELSE _rule6(s)

RECURSIVE Patterns(_)
\* [r.pattern for r in self._chunks]
Patterns(cs) ==
    IF cs = <<>> THEN <<>> ELSE <<Head(cs).pattern>> \o Patterns(Tail(cs))

----------------------------------------------------------------------------
(* Python's re, for the patterns the program hands it at run time: literal  *)
(* characters, ".", "\w", groups with alternatives, and the greedy          *)
(* quantifiers "*", "+", "?" and "{m,n}".  A match is searched depth-first  *)
(* in priority order, as the backtracking engine does: the operators below  *)
(* give, in that order, every position at which a match can end.  A lazy or *)
(* possessive quantifier (a "?" or "+" right after a quantifier) is no text *)
(* the program can build, and is taken as the error a second "*" is.        *)

DigitVal(c) == IF c = "1" THEN 1 ELSE IF c = "2" THEN 2 ELSE 5

\* whether a "{m,n}" quantifier stands at index i
BraceAt(p, i) ==
    /\ i + 4 <= Len(p)
    /\ p[i] = "{" /\ IsDigit(p[i + 1]) /\ p[i + 2] = ","
    /\ IsDigit(p[i + 3]) /\ p[i + 4] = "}"

RECURSIVE WellFormed(_, _, _, _)
\* sre_parse's errors from index i on, at nesting depth d, prev being what stands
\* before i: "start" (nothing to repeat), "atom" or "quant" (multiple repeat)
WellFormed(p, i, d, prev) ==
    IF i > Len(p) THEN d = 0
    ELSE IF p[i] = "(" THEN WellFormed(p, i + 1, d + 1, "start")
    ELSE IF p[i] = ")" THEN d > 0 /\ WellFormed(p, i + 1, d - 1, "atom")
    ELSE IF p[i] = "|" THEN WellFormed(p, i + 1, d, "start")
    ELSE IF p[i] \in {"*", "+", "?"}
         THEN prev = "atom" /\ WellFormed(p, i + 1, d, "quant")
    ELSE IF BraceAt(p, i) /\ prev # "atom"
         THEN prev = "start" /\ FALSE
    ELSE IF BraceAt(p, i) THEN WellFormed(p, i + 5, d, "quant")
    ELSE IF p[i] = "\\" THEN i < Len(p) /\ WellFormed(p, i + 2, d, "atom")
    ELSE WellFormed(p, i + 1, d, "atom")

RECURSIVE CloseOf(_, _, _)
\* the index of the ")" that closes the group open at index i, nested d deep
CloseOf(p, i, d) ==
    IF i > Len(p) THEN 0
    ELSE IF p[i] = "\\" THEN CloseOf(p, i + 2, d)
    ELSE IF p[i] = "(" THEN CloseOf(p, i + 1, d + 1)
    ELSE IF p[i] = ")" THEN IF d = 0 THEN i ELSE CloseOf(p, i + 1, d - 1)
    ELSE CloseOf(p, i + 1, d)

RECURSIVE BarAt(_, _, _, _)
\* the index of the first "|" of p[i..j] outside any group, 0 when none
BarAt(p, i, j, d) ==
    IF i > j THEN 0
    ELSE IF p[i] = "\\" THEN BarAt(p, i + 2, j, d)
    ELSE IF p[i] = "(" THEN BarAt(p, i + 1, j, d + 1)
    ELSE IF p[i] = ")" THEN BarAt(p, i + 1, j, d - 1)
    ELSE IF p[i] = "|" /\ d = 0 THEN i
    ELSE BarAt(p, i + 1, j, d)

\* the last index of the atom that starts at index i
AtomEnd(p, i) ==
    IF p[i] = "(" THEN CloseOf(p, i + 1, 0)
    ELSE IF p[i] = "\\" THEN i + 1
    ELSE i

\* the quantifier at index i of p[..j]: its bounds and its length in the text
QuantAt(p, i, j, unbounded) ==
    IF i > j THEN [min |-> 1, max |-> 1, len |-> 0]
    ELSE IF p[i] = "*" THEN [min |-> 0, max |-> unbounded, len |-> 1]
    ELSE IF p[i] = "+" THEN [min |-> 1, max |-> unbounded, len |-> 1]
    ELSE IF p[i] = "?" THEN [min |-> 0, max |-> 1, len |-> 1]
    ELSE IF BraceAt(p, i)
         THEN [min |-> DigitVal(p[i + 1]), max |-> DigitVal(p[i + 3]), len |-> 5]
    ELSE [min |-> 1, max |-> 1, len |-> 0]

\* whether the one-character atom at index i matches character c
CharMatches(p, i, c) ==
    IF p[i] = "\\" THEN (IF p[i + 1] = "w" THEN IsWord(c) ELSE c = p[i + 1])
    ELSE IF p[i] = "." THEN TRUE
    ELSE c = p[i]

RECURSIVE AltEnds(_, _, _, _, _)
RECURSIVE SeqEnds(_, _, _, _, _)
RECURSIVE SeqFrom(_, _, _, _, _)
RECURSIVE RepEnds(_, _, _, _, _, _, _)
RECURSIVE RepFrom(_, _, _, _, _, _, _, _)

\* the alternatives of p[i..j], the first first
AltEnds(p, i, j, s, pos) ==
    LET k == BarAt(p, i, j, 0) IN
    IF k = 0 THEN SeqEnds(p, i, j, s, pos)
    ELSE SeqEnds(p, i, k - 1, s, pos) \o AltEnds(p, k + 1, j, s, pos)

\* the quantified atoms of p[i..j], one after the other
SeqEnds(p, i, j, s, pos) ==
    IF i > j THEN <<pos>>
    ELSE LET a == AtomEnd(p, i)
             q == QuantAt(p, a + 1, j, Len(s) + 1)
         IN  SeqFrom(p, a + q.len + 1, j, s,
                     RepEnds(p, i, a, s, pos, q.min, q.max))

\* p[i..j] from each position of es in turn
SeqFrom(p, i, j, s, es) ==
    IF es = <<>> THEN <<>>
    ELSE SeqEnds(p, i, j, s, Head(es)) \o SeqFrom(p, i, j, s, Tail(es))

\* the atom p[i..a] once
AtomEnds(p, i, a, s, pos) ==
    IF p[i] = "(" THEN AltEnds(p, i + 1, a - 1, s, pos)
    ELSE IF pos < Len(s) /\ CharMatches(p, i, s[pos + 1]) THEN <<pos + 1>>
    ELSE <<>>

\* the atom p[i..a] from min to max times, greedily
RepEnds(p, i, a, s, pos, min, max) ==
    (IF max > 0
     THEN RepFrom(p, i, a, s, pos, min, max, AtomEnds(p, i, a, s, pos))
     ELSE <<>>)
    \o (IF min <= 0 THEN <<pos>> ELSE <<>>)

\* the further repetitions after one that ended at each position of es; a
\* repetition that matched nothing ends the loop
RepFrom(p, i, a, s, pos, min, max, es) ==
    IF es = <<>> THEN <<>>
    ELSE (IF Head(es) > pos
          THEN RepEnds(p, i, a, s, Head(es), min - 1, max - 1)
          ELSE <<pos>>)
         \o RepFrom(p, i, a, s, pos, min, max, Tail(es))

NoMatch == -1

\* len(re.match(p, s).group()), NoMatch when re.match raises or returns None
ReMatch(p, s) ==
    IF ~WellFormed(p, 1, 0, "start") THEN NoMatch
    ELSE LET es == AltEnds(p, 1, Len(p), s, 0) IN
         IF es = <<>> THEN NoMatch ELSE Head(es)

\* whether re.fullmatch(p, s) finds a match
ReFullMatch(p, s) ==
    /\ WellFormed(p, 1, 0, "start")
    /\ InSeq(Len(s), AltEnds(p, 1, Len(p), s, 0))

----------------------------------------------------------------------------
(* is_match *)

\* re.match(r'^\w+$', p)
IsWordRun(p) == p # <<>> /\ RunLen(p, WordChars, 1) = Len(p)

RECURSIVE AllWordRuns(_, _)
\* whether the first n of parts are non-empty runs of word characters
AllWordRuns(parts, n) ==
    n = 0 \/ (IsWordRun(parts[n]) /\ AllWordRuns(parts, n - 1))

\* re.match(r'^(\((\w+\|)+(\w+)?\))$', p)
IsOptionGroup(p) ==
    /\ Len(p) >= 2 /\ p[1] = "(" /\ p[Len(p)] = ")"
    /\ LET parts == Split(SubSeq(p, 2, Len(p) - 1), "|")
           n == Len(parts)
       IN  /\ n >= 2
           /\ AllWordRuns(parts, n - 1)
           /\ (parts[n] = <<>> \/ IsWordRun(parts[n]))

\* what an is_match call did: its argument, the value it returned, the branch it
\* left by, the chunk it was at and the remainder it held there
Exit(arg, res, branch, k, mn) ==
    [called |-> TRUE, mn |-> arg, result |-> res, branch |-> branch,
     chunk |-> k, rem |-> mn]

RECURSIVE Walk(_, _, _, _)
\* lines 309-342: the loop over the chunks, at chunk k with remainder mn
Walk(cs, arg, k, mn) ==
    IF k > Len(cs) THEN Exit(arg, TRUE, "end", 0, mn)
    ELSE IF cs[k].size > Len(mn)
    THEN IF IsWordRun(cs[k].pattern)
         THEN Exit(arg, ReMatch(mn, cs[k].pattern) # NoMatch, "literal", k, mn)
         ELSE IF IsOptionGroup(cs[k].pattern)
         THEN LET inner == SubSeq(cs[k].pattern, 2, Len(cs[k].pattern) - 1)
                  options == MapDropLast(Split(inner, "|"), Len(mn))
              IN  Exit(arg, InSeq(mn, options), "options", k, mn)
         ELSE Exit(arg, TRUE, "defer", k, mn)
    ELSE LET m == ReMatch(cs[k].pattern, mn) IN
         IF m = NoMatch THEN Exit(arg, FALSE, "nomatch", k, mn)
         ELSE Walk(cs, arg, k + 1, Drop(mn, m))

is_match(cs, model_to_match) ==
    IF model_to_match = <<>>
    THEN Exit(model_to_match, FALSE, "empty", 0, model_to_match)
    ELSE Walk(cs, model_to_match, 1, model_to_match)

----------------------------------------------------------------------------
(* transform, as a machine over the fields it reads and writes *)

\* lines 122-160 and 275, for a model number that is set
Begin(st, raw) ==
    LET mnum == IF raw # <<>> THEN raw ELSE st.model_number IN
    IF mnum = <<>> THEN [st EXCEPT !.pc = "invalid"]
    ELSE [st EXCEPT !.model_number = mnum,
                    !.rem_str = Preprocess(mnum),
                    !.chunks = <<>>,
                    !.pattern = <<>>,
                    !.break_count = 0,
                    !.scans = 0,
                    !.fails = 0,
                    !.pc = "loop"]

\* the iteration with `break` in the place of `raise`, the join following it
LoopStep_break(st) ==
    LET res == rules(st.rem_str)
        hit == IF res.ok
               THEN [st EXCEPT !.chunks = Append(@, res.chunk),
                               !.rem_str = res.rem,
                               !.break_count = 0,
                               !.fails = 0]
               ELSE [st EXCEPT !.fails = @ + 1]
        cnt == [hit EXCEPT !.scans = @ + 1]
    IN  IF cnt.break_count > BreakLimit
        THEN [cnt EXCEPT !.pattern = Concat(Patterns(cnt.chunks)),
                         !.pc = "returned"]
        ELSE [cnt EXCEPT !.break_count = @ + 1]

\* lines 280-290: one iteration of the while loop
LoopStep(st) ==
    LET res == rules(st.rem_str)
        hit == IF res.ok
               THEN [st EXCEPT !.chunks = Append(@, res.chunk),
                               !.rem_str = res.rem,
                               !.break_count = 0,
                               !.fails = 0]
               ELSE [st EXCEPT !.fails = @ + 1]
        cnt == [hit EXCEPT !.scans = @ + 1]
    IN  IF cnt.break_count > BreakLimit
        THEN [cnt EXCEPT !.pc = "raised"]
        ELSE [cnt EXCEPT !.break_count = @ + 1]

\* lines 291-297: the loop has ended
Finish(st) ==
    IF st.rem_str # <<>> THEN [st EXCEPT !.pc = "raised"]
    ELSE [st EXCEPT !.pattern = Concat(Patterns(st.chunks)), !.pc = "returned"]

RECURSIVE RunLoop(_)
\* lines 279-297: the while loop to its end
RunLoop(st) ==
    IF st.pc # "loop" THEN st
    ELSE IF st.rem_str # <<>> THEN RunLoop(LoopStep(st))
    ELSE Finish(st)

\* the whole of transform
transform(st, raw) == RunLoop(Begin(st, raw))

----------------------------------------------------------------------------
(* The inputs *)

Tokens ==
    { <<"A">>, <<"1">>, <<"1", "2">>, <<"A", "1", "2">>,
      <<",">>, <<"/">>, <<"(">>, <<")">>, <<"*">>, <<"-">>, <<"+">>,
      <<"(", "*", ")">> }

\* the raw notations: up to MaxTokens tokens in a row
RawInputs ==
    { Concat(ts) : ts \in UNION { [1..n -> Tokens] : n \in 0..MaxTokens } }

\* the arguments of a later transform call on the same object: None (re-run on
\* the stored model number), a well-formed and two malformed notations
AgainInputs == { <<>>, <<"A", "*">>, <<",">>, <<"A", "(">> }

----------------------------------------------------------------------------
(* The object *)

Self ==
    [model_number |-> model_number, rem_str |-> rem_str, chunks |-> chunks,
     pattern |-> pattern, break_count |-> break_count, pc |-> pc,
     scans |-> scans, fails |-> fails]

Becomes(st) ==
    /\ model_number' = st.model_number
    /\ rem_str' = st.rem_str
    /\ chunks' = st.chunks
    /\ pattern' = st.pattern
    /\ break_count' = st.break_count
    /\ pc' = st.pc
    /\ scans' = st.scans
    /\ fails' = st.fails

AtRest == pc \in {"idle", "returned", "raised", "invalid"}

\* ModelNumberRegex(): no model number, nothing compiled, no pattern attribute
Init ==
    /\ model_number = <<>>
    /\ rem_str = <<>>
    /\ chunks = <<>>
    /\ pattern = Unset
    /\ break_count = 0
    /\ pc = "idle"
    /\ scans = 0
    /\ fails = 0
    /\ match = NoCall

\* transform(raw) is called: lines 122-160
TransformBegin ==
    /\ AtRest
    /\ \E raw \in (IF pc = "idle" THEN RawInputs ELSE AgainInputs) :
           Becomes(Begin(Self, raw))
    /\ match' = NoCall

\* one iteration of the while loop
Scan ==
    /\ pc = "loop"
    /\ rem_str # <<>>
    /\ Becomes(LoopStep(Self))
    /\ UNCHANGED match

\* the loop ends with an empty cursor
TransformEnd ==
    /\ pc = "loop"
    /\ rem_str = <<>>
    /\ Becomes(Finish(Self))
    /\ UNCHANGED match

Next == TransformBegin \/ Scan \/ TransformEnd

Spec == Init /\ [][Next]_vars

----------------------------------------------------------------------------
(* transform as one step, then is_match on what it left *)

CandChars == {"A", "1", "2", "-", "."}

\* the candidates: every string of up to MaxCandLen characters
Candidates ==
    UNION { [1..n -> CandChars] : n \in 0..MaxCandLen }

\* transform(raw) on a new object, to its return or its exception
Compile ==
    /\ pc = "idle"
    /\ \E raw \in RawInputs : Becomes(transform(Self, raw))
    /\ UNCHANGED match

\* is_match(c): the object is left as it is, the call is recorded
IsMatch ==
    /\ AtRest
    /\ ~match.called
    /\ \E c \in Candidates : match' = is_match(chunks, c)
    /\ UNCHANGED <<model_number, rem_str, chunks, pattern, break_count, pc,
                   scans, fails>>

MatchNext == Compile \/ IsMatch

MatchSpec == Init /\ [][MatchNext]_vars

----------------------------------------------------------------------------
(* The three notations of a list of options *)

OptChars == {"A", "1"}

\* the lists of 2 to MaxOpts options, all of one length from 1 to 3
OptLists ==
    UNION { [1..n -> [1..len -> OptChars]] :
                n \in 2..MaxOpts, len \in 1..MaxOptLen }

Notations == {"comma", "slash", "paren"}

Notate(opts, how) ==
    IF how = "comma" THEN Join(opts, <<",">>)
    ELSE IF how = "slash" THEN Join(opts, <<"/">>)
    ELSE <<"(">> \o Join(opts, <<",">>) \o <<")">>

\* transform(list) on a new object, the list written in one of the notations
CompileList ==
    /\ pc = "idle"
    /\ \E opts \in OptLists, how \in Notations :
           Becomes(transform(Self, Notate(opts, how)))
    /\ UNCHANGED match

FoldSpec == Init /\ [][CompileList]_vars

----------------------------------------------------------------------------
(* The claims *)

\* no rule consumes the cursor
Stuck == rem_str # <<>> /\ ~rules(rem_str).ok

\* the next step is an iteration of the while loop
Scanning == pc = "loop" /\ rem_str # <<>>

\* C1: partial-match monotonicity: when the compiled pattern matches a
\* candidate in full, is_match accepts every non-empty prefix of it.
C1_PrefixesAccepted ==
    ( /\ pc = "returned"
      /\ match.called
      /\ match.mn # <<>>
      /\ \E c \in Candidates :
             IsPrefix(match.mn, c) /\ ReFullMatch(pattern, c) )
    => match.result

\* C2: list folding: a list of two or more options of one length, written
\* with commas, with slashes or in parentheses, compiles, and to (o1|...|on).
C2_ListFolding ==
    \A opts \in OptLists, how \in Notations :
        (pc # "idle" /\ model_number = Notate(opts, how))
        => /\ pc = "returned"
           /\ pattern = <<"(">> \o Join(opts, <<"|">>) \o <<")">>

\* C3: malformed rejection: transform returns only with an empty cursor and
\* with the pattern of all its chunks; from a cursor no rule consumes it
\* never returns: each iteration leaves the cursor and counts, up to the
\* limit, and the one after raises.
C3_MalformedRejection ==
    /\ [](pc = "returned"
          => rem_str = <<>> /\ pattern = Concat(Patterns(chunks)))
    /\ [](pc = "raised" => Stuck)
    /\ [](break_count <= BreakLimit + 1)
    /\ [][(pc = "loop" /\ Stuck)
          => /\ rem_str' = rem_str
             /\ chunks' = chunks
             /\ IF break_count > BreakLimit
                THEN pc' = "raised"
                ELSE pc' = "loop" /\ break_count' = break_count + 1]_vars

\* a call has raised on a cursor that no rule consumes, after chunks were made
C3_Witness == pc = "raised" /\ Stuck /\ chunks # <<>>

\* C4: min_size soundness: a chunk of a compiled sequence with a size >= 0
\* matches no string shorter than its size.
C4_SizeIsMinimum ==
    pc = "returned"
    => \A i \in 1..Len(chunks) :
           chunks[i].size >= 0
           => \A c \in Candidates :
                  ReFullMatch(chunks[i].pattern, c) => Len(c) >= chunks[i].size

\* C5: canonical pattern: after a transform call, returned or raised, the
\* stored pattern is the concatenation of the stored chunks' patterns.
C5_PatternIsConcatenation ==
    pc \in {"returned", "raised"} => pattern = Concat(Patterns(chunks))

\* the four shapes of a fragment's pattern
IsAlternation(p) ==
    /\ Len(p) >= 3 /\ p[1] = "(" /\ p[Len(p)] = ")"
    /\ LET opts == Split(SubSeq(p, 2, Len(p) - 1), "|")
       IN  AllWordRuns(opts, Len(opts))

IsWildcard(p) ==
    \/ p = <<"\\", "w", "+">>
    \/ p = WildGroup
    \/ \E n \in 1..Len(p) : p = Repeat(<<"\\", "w">>, n)

IsHyphens(p) == \E n \in 1..Len(p) : p = Repeat(<<"-", "?">>, n)

\* C6: fragment shape: every chunk of a compiled sequence is a run of word
\* characters, an alternation of such runs, a wildcard or optional hyphens.
C6_FragmentShape ==
    pc = "returned"
    => \A i \in 1..Len(chunks) :
           \/ IsWordRun(chunks[i].pattern)
           \/ IsAlternation(chunks[i].pattern)
           \/ IsWildcard(chunks[i].pattern)
           \/ IsHyphens(chunks[i].pattern)

\* C7: too-short alternation: is_match, at an alternation longer than the
\* remainder, returns whether the remainder is the start of an option.
C7_TruncatedOption ==
    match.branch = "options"
    => LET p == chunks[match.chunk].pattern
           opts == Split(SubSeq(p, 2, Len(p) - 1), "|")
       IN  match.result
           = (\E i \in 1..Len(opts) : Take(opts[i], Len(match.rem)) = match.rem)

\* C8: too-short literal: is_match, at a literal longer than the remainder,
\* returns whether the remainder is, character for character, its prefix.
C8_LiteralPrefix ==
    match.branch = "literal"
    => match.result = IsPrefix(match.rem, chunks[match.chunk].pattern)

\* C9: no-progress counter: the loop raises at the third consecutive
\* iteration in which no rule applied, whether or not a chunk was made.
C9_ThreeFailures ==
    pc = "raised" => fails = BreakLimit + 1

\* what every iteration that stays in the loop makes smaller
Variant ==
    (BreakLimit + 2) * Len(rem_str) + (BreakLimit + 1 - break_count)

\* C10: termination: an iteration in which a rule applies shortens the
\* cursor and appends one chunk; one in which none applies leaves both and
\* counts the failure (or, the count being over the limit, raises); so each
\* iteration ends the loop or lowers a natural number, and the iterations
\* number at most the length of the input plus the retries.
C10_Termination ==
    /\ [][Scanning
          => /\ IF rules(rem_str).ok
                THEN /\ Len(rem_str') < Len(rem_str)
                     /\ Len(chunks') = Len(chunks) + 1
                     /\ SubSeq(chunks', 1, Len(chunks)) = chunks
                ELSE /\ rem_str' = rem_str
                     /\ chunks' = chunks
                     /\ fails' = fails + 1
                     /\ (pc' = "raised" \/ break_count' = break_count + 1)
             /\ scans' = scans + 1
             /\ (pc' = "raised" \/ (pc' = "loop" /\ Variant' < Variant))]_vars
    /\ [][(pc = "loop" /\ ~Scanning) => pc' \in {"returned", "raised"}]_vars
    /\ [](Variant >= 0)
    /\ [](scans <= Len(model_number) + BreakLimit + 1)

\* a call has ended after iterations of both kinds, as many as the bound allows
C10_Witness ==
    /\ pc = "raised"
    /\ chunks # <<>>
    /\ scans = Len(chunks) + BreakLimit + 1
    /\ scans = Len(model_number) + BreakLimit

====
